---- MODULE Spec2Model ----
(***************************************************************************)
(* Invoisio invoice-payment contract (soroban/contracts/invoice-payment).  *)
(* The contract instance is a state machine over the host's leased         *)
(* key/value store: instance storage (Admin, PaymentCount), persistent     *)
(* storage (Payment(invoice_id)), the event log and the ledger clock.      *)
(* The host serialises invocations: an invocation runs its handler to      *)
(* completion and leaves its response in inv until the host delivers it.   *)
(***************************************************************************)
EXTENDS Integers, Sequences, FiniteSets, TLC

\* ------------------------------------------------------------------ bounds
MaxLedger == 1

\* --------------------------------------------------------- program constants
MIN_TTL == 17280
BUMP_TTL == 518400
\* a u32 is kept as its two 16-bit halves [hi, lo]; its value is hi * 2^16 + lo
U16_MODULUS == 65536

\* ------------------------------------------------------------- input domains
Addresses == {"GA", "GB"}
AuthSets == SUBSET Addresses
InvoiceIds == {"", "inv-1", "inv-2"}
AssetCodes == {"", "XLM", "USDC"}
AssetIssuers == {"", "GISSUER"}
Amounts == {-1, 0, 1, 2}
\* remaining lifetime the host gives an entry when it is created: below the
\* extension threshold, as on the test host
FreshLifetime == MIN_TTL - 1

VARIABLES
    instance,    \* instance storage: Admin slot, PaymentCount slot, lease
    persistent,  \* persistent storage: invoice_id -> {} or {entry}
    events,      \* published events, oldest first
    ledger,      \* ledger clock (timestamp source, lease time base)
    inv,         \* the invocation whose response awaits delivery
    hist         \* history: successful record_payment calls; the outgoing
                 \* admin of the last hand-over between two identities

vars == <<instance, persistent, events, ledger, inv, hist>>

\* ------------------------------------------------------------ domain model
Native == <<"Native">>
Token(code, issuer) == <<"Token", code, issuer>>

PaymentRecord(invoice_id, payer, asset, amount, timestamp) ==
    [invoice_id |-> invoice_id, payer |-> payer, asset |-> asset,
     amount |-> amount, timestamp |-> timestamp]

\* ------------------------------------------------------- durable keyed store
\* the value of a present Option, modelled as a one-element set
Unwrap(opt) == CHOOSE x \in opt : TRUE

\* extend_ttl(threshold, extend_to) on an entry whose lease ends at live_until
extend_ttl(live_until, now, threshold, extend_to) ==
    IF live_until - now < threshold THEN now + extend_to ELSE live_until

\* faulty variant: looks the key up in the wrong store and never finds it
storage_has_admin_wrong_store(inst) == FALSE

storage_has_admin(inst) == inst.Admin # {}

\* faulty variant: reads the wrong store, so the admin is never found
storage_get_admin_wrong_store(inst) ==
    [ok |-> FALSE, err |-> "NotInitialized", val |-> {}]

\* faulty variant: falls back to a default identity instead of failing
storage_get_admin_or_default(inst) ==
    IF inst.Admin = {}
    THEN [ok |-> TRUE, err |-> "", val |-> {"GA"}]
    ELSE [ok |-> TRUE, err |-> "", val |-> inst.Admin]

storage_get_admin(inst) ==
    IF inst.Admin = {}
    THEN [ok |-> FALSE, err |-> "NotInitialized", val |-> {}]
    ELSE [ok |-> TRUE, err |-> "", val |-> inst.Admin]

\* faulty variant: writes the slot only while it is empty
storage_set_admin_if_absent(inst, new_admin, now) ==
    [inst EXCEPT !.Admin = IF inst.Admin = {} THEN {new_admin} ELSE inst.Admin,
                 !.live_until = extend_ttl(inst.live_until, now, MIN_TTL, BUMP_TTL)]

storage_set_admin(inst, new_admin, now) ==
    [inst EXCEPT !.Admin = {new_admin},
                 !.live_until = extend_ttl(inst.live_until, now, MIN_TTL, BUMP_TTL)]

\* faulty variant: the existence probe never finds the record
storage_has_payment_never(pers, invoice_id) == FALSE

storage_has_payment(pers, invoice_id) == pers[invoice_id] # {}

\* the record read and the store after the read (the read extends the lease)
\* faulty variant: the read extends the lease of every stored record
storage_get_payment_extend_all(pers, invoice_id, now) ==
    IF pers[invoice_id] = {}
    THEN [ok |-> FALSE, err |-> "PaymentNotFound", val |-> {}, pers |-> pers]
    ELSE [ok |-> TRUE, err |-> "", val |-> {Unwrap(pers[invoice_id]).val},
          pers |-> [i \in DOMAIN pers |->
                      {[e EXCEPT !.live_until =
                          extend_ttl(e.live_until, now, MIN_TTL, BUMP_TTL)]
                         : e \in pers[i]}]]

storage_get_payment(pers, invoice_id, now) ==
    IF pers[invoice_id] = {}
    THEN [ok |-> FALSE, err |-> "PaymentNotFound", val |-> {}, pers |-> pers]
    ELSE LET e == Unwrap(pers[invoice_id])
         IN [ok |-> TRUE, err |-> "", val |-> {e.val},
             pers |-> [pers EXCEPT ![invoice_id] =
                        {[e EXCEPT !.live_until =
                            extend_ttl(e.live_until, now, MIN_TTL, BUMP_TTL)]}]]

\* faulty variant: the write replaces the whole store by the one new entry
storage_set_payment_clobber(pers, record, now, fresh) ==
    [i \in DOMAIN pers |->
        IF i = record.invoice_id
        THEN {[val |-> record,
               live_until |-> extend_ttl(now + fresh, now, MIN_TTL, BUMP_TTL)]}
        ELSE {}]

\* faulty variant: the record is written and its lease is left as the host
\* set it
storage_set_payment_no_extend(pers, record, now, fresh) ==
    LET key == record.invoice_id
        old == IF pers[key] = {} THEN now + fresh
               ELSE Unwrap(pers[key]).live_until
    IN [pers EXCEPT ![key] = {[val |-> record, live_until |-> old]}]

\* fresh: the lifetime the host gives the entry if the key is new
storage_set_payment(pers, record, now, fresh) ==
    LET key == record.invoice_id
        old == IF pers[key] = {} THEN now + fresh
               ELSE Unwrap(pers[key]).live_until
    IN [pers EXCEPT ![key] =
          {[val |-> record,
            live_until |-> extend_ttl(old, now, MIN_TTL, BUMP_TTL)]}]

U32(n) == [hi |-> n \div U16_MODULUS, lo |-> n % U16_MODULUS]

\* faulty variant: a missing counter reads as one
storage_get_count_wrong_default(inst) ==
    IF inst.PaymentCount = {} THEN U32(1) ELSE Unwrap(inst.PaymentCount)

storage_get_count(inst) ==
    IF inst.PaymentCount = {} THEN U32(0) ELSE Unwrap(inst.PaymentCount)

\* faulty variant: the incremented value is dropped
u32_add_one_dropped(count) == {[panic |-> FALSE, val |-> count]}

\* count + 1u32: on overflow the build either traps or wraps
u32_add_one(count) ==
    IF count.lo + 1 < U16_MODULUS
    THEN {[panic |-> FALSE, val |-> [count EXCEPT !.lo = @ + 1]]}
    ELSE IF count.hi + 1 < U16_MODULUS
    THEN {[panic |-> FALSE, val |-> [hi |-> count.hi + 1, lo |-> 0]]}
    ELSE {[panic |-> TRUE, val |-> count],
          [panic |-> FALSE, val |-> U32(0)]}

\* faulty variant: the lease is extended and the sum is not written
storage_bump_count_no_write(inst, sum, now) ==
    [inst EXCEPT !.live_until = extend_ttl(inst.live_until, now, MIN_TTL, BUMP_TTL)]

storage_bump_count(inst, sum, now) ==
    [inst EXCEPT !.PaymentCount = {sum},
                 !.live_until = extend_ttl(inst.live_until, now, MIN_TTL, BUMP_TTL)]

\* ------------------------------------------------------- authorization gate
\* Address::require_auth: the host lets the invocation continue only if addr
\* authorized it
require_auth(addr, auths) == addr \in auths

\* --------------------------------------------------------------- events
emit_payment_recorded(evts, record) ==
    Append(evts, [topics |-> <<"payment", "recorded">>, data |-> record])

\* ------------------------------------------------- storage calls, in order
StorageCall(call, scope, key) ==
    [call |-> call, scope |-> scope, key |-> key, threshold |-> 0, extend_to |-> 0]

ExtendCall(scope, key) ==
    [call |-> "extend_ttl", scope |-> scope, key |-> key,
     threshold |-> MIN_TTL, extend_to |-> BUMP_TTL]

\* set_admin: instance().set(Admin); instance().extend_ttl
storage_set_admin_log ==
    <<StorageCall("set", "instance", "Admin"), ExtendCall("instance", "")>>

\* get_payment, record found: persistent().get(key); persistent().extend_ttl(key)
storage_get_payment_log(invoice_id) ==
    <<StorageCall("get", "persistent", invoice_id),
      ExtendCall("persistent", invoice_id)>>

\* set_payment: persistent().set(key); persistent().extend_ttl(key)
storage_set_payment_log(invoice_id) ==
    <<StorageCall("set", "persistent", invoice_id),
      ExtendCall("persistent", invoice_id)>>

\* faulty variant: the counter is written without the extension
storage_bump_count_log_no_extend == <<StorageCall("set", "instance", "PaymentCount")>>

\* bump_count: instance().set(PaymentCount); instance().extend_ttl
storage_bump_count_log ==
    <<StorageCall("set", "instance", "PaymentCount"), ExtendCall("instance", "")>>

\* initialize: set_admin(&env, &admin); instance().set(PaymentCount, 0)
initialize_log ==
    storage_set_admin_log \o <<StorageCall("set", "instance", "PaymentCount")>>

\* ------------------------------------------------------------- invocations
\* op and result of the invocation, the authorizations it carried, its
\* invoice_id or address argument, and the value it returned; at names the
\* last storage call made by a handler that is followed statement by statement;
\* log lists, in order, the storage writes, the successful reads of persistent
\* records and the lease extensions the handler has made
NoInv ==
    [op |-> "none", auths |-> {}, invoice_id |-> "", addr |-> {},
     result |-> "", ret |-> {}, at |-> "", log |-> <<>>]

Call(op, auths) == [NoInv EXCEPT !.op = op, !.auths = auths]

Init ==
    /\ instance = [Admin |-> {}, PaymentCount |-> {}, live_until |-> FreshLifetime]
    /\ persistent = [i \in InvoiceIds |-> {}]
    /\ events = <<>>
    /\ ledger = 0
    /\ inv = NoInv
    /\ hist = [succ |-> 0, prev |-> {}]

\* the invocation completes with result and return value; the handler's
\* writes, if any, are stated by the caller of Respond
Respond(call, result, ret) == inv' = [call EXCEPT !.result = result, !.ret = ret]

\* an invocation that fails: the response is the error and nothing is written
Fail(call, err) ==
    /\ Respond(call, err, {})
    /\ UNCHANGED <<instance, persistent, events, ledger, hist>>

\* faulty variant: the counter is reset before the guard is looked at
initialize_reset_first(auths, admin_addr) ==
    LET call == [Call("initialize", auths) EXCEPT !.addr = {admin_addr}]
    IN /\ inv.op = "none"
       /\ IF storage_has_admin(instance)
          THEN /\ instance' = [instance EXCEPT !.PaymentCount = {U32(0)}]
               /\ Respond(call, "AlreadyInitialized", {})
               /\ UNCHANGED <<persistent, events, ledger, hist>>
          ELSE /\ instance' =
                    [storage_set_admin(instance, admin_addr, ledger)
                        EXCEPT !.PaymentCount = {U32(0)}]
               /\ Respond([call EXCEPT !.log = initialize_log], "Ok", {})
               /\ UNCHANGED <<persistent, events, ledger, hist>>

\* faulty variant: the new admin must have authorized the call
initialize_auth_required(auths, admin_addr) ==
    LET call == [Call("initialize", auths) EXCEPT !.addr = {admin_addr}]
    IN /\ inv.op = "none"
       /\ IF storage_has_admin(instance)
          THEN Fail(call, "AlreadyInitialized")
          ELSE IF ~require_auth(admin_addr, auths)
               THEN Fail(call, "AuthFailed")
          ELSE /\ instance' =
                    [storage_set_admin(instance, admin_addr, ledger)
                        EXCEPT !.PaymentCount = {U32(0)}]
               /\ Respond([call EXCEPT !.log = initialize_log], "Ok", {})
               /\ UNCHANGED <<persistent, events, ledger, hist>>

\* lib.rs initialize
initialize(auths, admin_addr) ==
    LET call == [Call("initialize", auths) EXCEPT !.addr = {admin_addr}]
    IN /\ inv.op = "none"
       /\ IF storage_has_admin(instance)
          THEN Fail(call, "AlreadyInitialized")
          ELSE /\ instance' =
                    [storage_set_admin(instance, admin_addr, ledger)
                        EXCEPT !.PaymentCount = {U32(0)}]
               /\ Respond([call EXCEPT !.log = initialize_log], "Ok", {})
               /\ UNCHANGED <<persistent, events, ledger, hist>>

\* faulty variant: compares with the wrong literal
is_xlm_wrong_literal(asset_code) == asset_code = "xlm"

\* lib.rs record_payment, guard by guard
is_xlm(asset_code) == asset_code = "XLM"

\* faulty variant: the amount guard is missing
invalid_amount_never(amount) == FALSE

\* faulty variant: zero passes the amount guard
invalid_amount_negative_only(amount) == amount < 0

\* step 3 of record_payment: amount <= 0
invalid_amount(amount) == amount <= 0

\* faulty variant: the native case is not told apart
build_asset_always_token(asset_code, asset_issuer) == Token(asset_code, asset_issuer)

build_asset(asset_code, asset_issuer) ==
    IF is_xlm(asset_code) THEN Native ELSE Token(asset_code, asset_issuer)

\* faulty variant: the admin's authorization is not demanded
record_payment_auth_skipped(admin_addr, auths) == TRUE

\* step 1 of record_payment: admin.require_auth()
record_payment_auth(admin_addr, auths) == require_auth(admin_addr, auths)

record_payment(auths, invoice_id, payer, asset_code, asset_issuer, amount) ==
    LET call == [Call("record_payment", auths) EXCEPT !.invoice_id = invoice_id]
        admin_r == storage_get_admin(instance)
        issuer_empty == Len(asset_issuer) = 0
    IN /\ inv.op = "none"
       /\ IF ~admin_r.ok THEN Fail(call, admin_r.err)
          ELSE IF ~record_payment_auth(Unwrap(admin_r.val), auths)
               THEN Fail(call, "AuthFailed")
          ELSE IF Len(invoice_id) = 0 THEN Fail(call, "InvalidInvoiceId")
          ELSE IF Len(asset_code) = 0 THEN Fail(call, "InvalidAsset")
          ELSE IF is_xlm(asset_code) /\ ~issuer_empty THEN Fail(call, "InvalidAsset")
          ELSE IF ~is_xlm(asset_code) /\ issuer_empty THEN Fail(call, "InvalidAsset")
          ELSE IF invalid_amount(amount) THEN Fail(call, "InvalidAmount")
          ELSE IF storage_has_payment(persistent, invoice_id)
               THEN Fail(call, "PaymentAlreadyRecorded")
          ELSE LET record == PaymentRecord(invoice_id, payer,
                                 build_asset(asset_code, asset_issuer),
                                 amount, ledger)
               IN \E sum \in u32_add_one(storage_get_count(instance)) :
                     IF sum.panic
                     THEN Fail(call, "Trap")
                     ELSE /\ persistent' =
                               storage_set_payment(persistent, record, ledger,
                                                   FreshLifetime)
                          /\ instance' = storage_bump_count(instance, sum.val, ledger)
                          /\ events' = emit_payment_recorded(events, record)
                          /\ hist' = [hist EXCEPT !.succ = @ + 1]
                          /\ Respond([call EXCEPT !.log =
                                         storage_set_payment_log(invoice_id)
                                            \o storage_bump_count_log],
                                     "Ok", {})
                          /\ UNCHANGED ledger

\* lib.rs get_payment
get_payment(invoice_id) ==
    LET call == [Call("get_payment", {}) EXCEPT !.invoice_id = invoice_id]
        r == storage_get_payment(persistent, invoice_id, ledger)
    IN /\ inv.op = "none"
       /\ IF ~r.ok THEN Fail(call, r.err)
          ELSE /\ persistent' = r.pers
               /\ Respond([call EXCEPT !.log = storage_get_payment_log(invoice_id)],
                          "Ok", r.val)
               /\ UNCHANGED <<instance, events, ledger, hist>>

\* lib.rs has_payment
has_payment(invoice_id) ==
    LET call == [Call("has_payment", {}) EXCEPT !.invoice_id = invoice_id]
    IN /\ inv.op = "none"
       /\ Respond(call, "Ok", {storage_has_payment(persistent, invoice_id)})
       /\ UNCHANGED <<instance, persistent, events, ledger, hist>>

\* lib.rs payment_count
payment_count ==
    /\ inv.op = "none"
    /\ Respond(Call("payment_count", {}), "Ok", {storage_get_count(instance)})
    /\ UNCHANGED <<instance, persistent, events, ledger, hist>>

\* lib.rs admin
admin ==
    LET r == storage_get_admin(instance)
    IN /\ inv.op = "none"
       /\ IF ~r.ok THEN Fail(Call("admin", {}), r.err)
          ELSE /\ Respond(Call("admin", {}), "Ok", r.val)
               /\ UNCHANGED <<instance, persistent, events, ledger, hist>>

\* faulty variant: only the outgoing admin is asked
set_admin_auth_current_only(current, new_admin, auths) == require_auth(current, auths)

\* set_admin: current.require_auth(); new_admin.require_auth()
set_admin_auth(current, new_admin, auths) ==
    require_auth(current, auths) /\ require_auth(new_admin, auths)

\* lib.rs set_admin
set_admin(auths, new_admin) ==
    LET call == [Call("set_admin", auths) EXCEPT !.addr = {new_admin}]
        current == storage_get_admin(instance)
    IN /\ inv.op = "none"
       /\ IF ~current.ok THEN Fail(call, current.err)
          ELSE IF ~set_admin_auth(Unwrap(current.val), new_admin, auths)
               THEN Fail(call, "AuthFailed")
          ELSE /\ instance' = storage_set_admin(instance, new_admin, ledger)
               /\ hist' = IF new_admin \in current.val THEN hist
                          ELSE [hist EXCEPT !.prev = current.val]
               /\ Respond([call EXCEPT !.log = storage_set_admin_log], "Ok", {})
               /\ UNCHANGED <<persistent, events, ledger>>

\* the host hands the response to the caller; the next invocation may start
Deliver ==
    /\ inv.op # "none"
    /\ inv' = NoInv
    /\ UNCHANGED <<instance, persistent, events, ledger, hist>>

\* a ledger closes between invocations
CloseLedger ==
    /\ inv.op = "none"
    /\ ledger < MaxLedger
    /\ ledger' = ledger + 1
    /\ UNCHANGED <<instance, persistent, events, inv, hist>>

Next ==
    \/ \E auths \in AuthSets, a \in Addresses : initialize(auths, a)
    \/ \E auths \in AuthSets, i \in InvoiceIds, p \in Addresses,
          c \in AssetCodes, s \in AssetIssuers, n \in Amounts :
            record_payment(auths, i, p, c, s, n)
    \/ \E i \in InvoiceIds : get_payment(i)
    \/ \E i \in InvoiceIds : has_payment(i)
    \/ payment_count
    \/ admin
    \/ \E auths \in AuthSets, a \in Addresses : set_admin(auths, a)
    \/ Deliver
    \/ CloseLedger

Spec == Init /\ [][Next]_vars

\* one payer, for the specifications in which the payer plays no part
GuardPayers == {"GA"}

NextGuards ==
    \/ \E auths \in AuthSets, a \in Addresses : initialize(auths, a)
    \/ \E auths \in AuthSets, i \in InvoiceIds, p \in GuardPayers,
          c \in AssetCodes, s \in AssetIssuers, n \in Amounts :
            record_payment(auths, i, p, c, s, n)
    \/ \E i \in InvoiceIds : get_payment(i)
    \/ \E i \in InvoiceIds : has_payment(i)
    \/ payment_count
    \/ admin
    \/ \E auths \in AuthSets, a \in Addresses : set_admin(auths, a)
    \/ Deliver
    \/ CloseLedger

SpecGuards == Init /\ [][NextGuards]_vars

\* ------------------------------------------- record_payment, statement by statement
\* every guard of record_payment (steps 1 to 4) lets the call through
record_payment_guards_pass(auths, invoice_id, asset_code, asset_issuer, amount) ==
    LET admin_r == storage_get_admin(instance)
        issuer_empty == Len(asset_issuer) = 0
    IN /\ admin_r.ok
       /\ record_payment_auth(Unwrap(admin_r.val), auths)
       /\ Len(invoice_id) # 0
       /\ Len(asset_code) # 0
       /\ ~(is_xlm(asset_code) /\ ~issuer_empty)
       /\ ~(~is_xlm(asset_code) /\ issuer_empty)
       /\ ~invalid_amount(amount)
       /\ ~storage_has_payment(persistent, invoice_id)

\* steps 1 to 6: the guards, then set_payment(&env, &record); a call that a
\* guard stops ends as in record_payment
record_payment_store(auths, invoice_id, payer, asset_code, asset_issuer, amount) ==
    IF record_payment_guards_pass(auths, invoice_id, asset_code, asset_issuer, amount)
    THEN LET record == PaymentRecord(invoice_id, payer,
                           build_asset(asset_code, asset_issuer), amount, ledger)
         IN /\ inv.op = "none"
            /\ persistent' = storage_set_payment(persistent, record, ledger,
                                                 FreshLifetime)
            /\ inv' = [Call("record_payment", auths) EXCEPT
                          !.invoice_id = invoice_id, !.at = "set_payment",
                          !.log = storage_set_payment_log(invoice_id)]
            /\ UNCHANGED <<instance, events, ledger, hist>>
    ELSE record_payment(auths, invoice_id, payer, asset_code, asset_issuer, amount)

\* step 7: bump_count(&env); a trap aborts the invocation and the host
\* discards the record written by step 6
record_payment_bump ==
    /\ inv.op = "record_payment"
    /\ inv.at = "set_payment"
    /\ \E sum \in u32_add_one(storage_get_count(instance)) :
          IF sum.panic
          THEN /\ persistent' = [persistent EXCEPT ![inv.invoice_id] = {}]
               /\ inv' = [inv EXCEPT !.at = "", !.result = "Trap", !.log = <<>>]
               /\ UNCHANGED <<instance, events, ledger, hist>>
          ELSE /\ instance' = storage_bump_count(instance, sum.val, ledger)
               /\ inv' = [inv EXCEPT !.at = "bump_count",
                                      !.log = @ \o storage_bump_count_log]
               /\ UNCHANGED <<persistent, events, ledger, hist>>

\* step 8 and the return: emit_payment_recorded(&env, record); Ok(())
record_payment_emit ==
    /\ inv.op = "record_payment"
    /\ inv.at = "bump_count"
    /\ events' = emit_payment_recorded(events, Unwrap(persistent[inv.invoice_id]).val)
    /\ hist' = [hist EXCEPT !.succ = @ + 1]
    /\ inv' = [inv EXCEPT !.at = "", !.result = "Ok"]
    /\ UNCHANGED <<instance, persistent, ledger>>

NextSteps ==
    \/ \E auths \in AuthSets, a \in Addresses : initialize(auths, a)
    \/ \E auths \in AuthSets, i \in InvoiceIds, p \in GuardPayers,
          c \in AssetCodes, s \in AssetIssuers, n \in Amounts :
            record_payment_store(auths, i, p, c, s, n)
    \/ record_payment_bump
    \/ record_payment_emit
    \/ \E i \in InvoiceIds : get_payment(i)
    \/ \E i \in InvoiceIds : has_payment(i)
    \/ payment_count
    \/ admin
    \/ \E auths \in AuthSets, a \in Addresses : set_admin(auths, a)
    \/ (inv.at = "" /\ Deliver)
    \/ CloseLedger

SpecSteps == Init /\ [][NextSteps]_vars

\* ------------------------------------------------- leases running out
\* The ledger clock jumps to the instants at which some lease changes its
\* standing: the remaining lifetime reaches the extension threshold, falls
\* below it, reaches zero, runs out. The host may reclaim a persistent entry
\* once its lease has run out; until it does, the entry is still stored.

\* invocations are made up to this ledger; the clock runs on until the
\* leases then held have run out
MaxLeaseLedger == 518401

LeaseAdmins == {"GA"}
LeaseAuths == {{}, {"GA"}}
LeaseCodes == {"XLM"}
LeaseIssuers == {""}
LeaseAmounts == {1}

\* an entry lives through the ledger live_until and has run out after it
Expired(live_until, now) == now > live_until

Leases ==
    {instance.live_until} \cup
    {Unwrap(persistent[i]).live_until : i \in {j \in InvoiceIds : persistent[j] # {}}}

LeaseInstants ==
    UNION {{l - MIN_TTL, l - MIN_TTL + 1, l, l + 1} : l \in Leases}

\* ledgers close, invocation or not, until the clock reads t
AdvanceLedger(t) ==
    /\ inv.op = "none"
    /\ t > ledger
    /\ t <= MaxLeaseLedger \/ \E l \in Leases : t = l + 1
    /\ ledger' = t
    /\ UNCHANGED <<instance, persistent, events, inv, hist>>

Tick == \E t \in LeaseInstants : AdvanceLedger(t)

\* the host reclaims a persistent entry whose lease has run out
Evict(invoice_id) ==
    /\ inv.op = "none"
    /\ persistent[invoice_id] # {}
    /\ Expired(Unwrap(persistent[invoice_id]).live_until, ledger)
    /\ persistent' = [persistent EXCEPT ![invoice_id] = {}]
    /\ UNCHANGED <<instance, events, ledger, inv, hist>>

NextLease ==
    \/ \E auths \in LeaseAuths, a \in LeaseAdmins :
          ledger <= MaxLeaseLedger /\ initialize(auths, a)
    \/ \E auths \in LeaseAuths, i \in InvoiceIds, p \in GuardPayers,
          c \in LeaseCodes, s \in LeaseIssuers, n \in LeaseAmounts :
            ledger <= MaxLeaseLedger /\ record_payment(auths, i, p, c, s, n)
    \/ \E i \in InvoiceIds : ledger <= MaxLeaseLedger /\ get_payment(i)
    \/ \E i \in InvoiceIds : has_payment(i)
    \/ Deliver
    \/ Tick
    \/ \E i \in InvoiceIds : Evict(i)

\* ledgers keep closing whatever the callers do, and responses are delivered
SpecLease ==
    Init /\ [][NextLease]_vars /\ WF_vars(Deliver) /\ SF_vars(Tick)

\* ------------------------------------------------- counter near its maximum
\* An instance that has recorded almost 2^32 payments, all under identifiers
\* other than the ones of InvoiceIds: persistent shows the keys of InvoiceIds
\* only, events and hist count from this state on.

\* how far below u32::MAX the counter starts, at most
CounterHeadroom == 1

U32_MAX == [hi |-> U16_MODULUS - 1, lo |-> U16_MODULUS - 1]

InitCounter ==
    /\ \E h \in 0..CounterHeadroom :
          instance = [Admin |-> {"GA"},
                      PaymentCount |-> {[U32_MAX EXCEPT !.lo = @ - h]},
                      live_until |-> BUMP_TTL]
    /\ persistent = [i \in InvoiceIds |-> {}]
    /\ events = <<>>
    /\ ledger = 0
    /\ inv = NoInv
    /\ hist = [succ |-> 0, prev |-> {}]

SpecCounter == InitCounter /\ [][NextGuards]_vars

\* ------------------------------------------------------------ verification
\* the step is an invocation of op (the response is in inv')
Invoked(op) == inv.op = "none" /\ inv'.op = op

\* asset_code, asset_issuer and amount pass the input guards of record_payment
PassesInputGuards(code, issuer, amount) ==
    /\ code # ""
    /\ (code = "XLM") <=> (issuer = "")
    /\ amount > 0

\* the step is record_payment on inv'.invoice_id with inv'.auths and some
\* payer, asset and amount that pass the input guards
InvokedWithValidArgs ==
    \E p \in Addresses, c \in AssetCodes, s \in AssetIssuers, n \in Amounts :
        /\ PassesInputGuards(c, s, n)
        /\ record_payment(inv'.auths, inv'.invoice_id, p, c, s, n)

\* the step is a record_payment on an identifier that already has a record,
\* authorized by the current admin
DuplicateByAdmin ==
    /\ Invoked("record_payment")
    /\ persistent[inv'.invoice_id] # {}
    /\ instance.Admin # {}
    /\ instance.Admin \subseteq inv'.auths

\* C1 as stated: a record_payment on a recorded identifier, authorized by the
\* admin, fails with PaymentAlreadyRecorded whatever its other arguments are
\* and leaves the record and the counter unchanged
C1_AsStated ==
    [][DuplicateByAdmin =>
         /\ inv'.result = "PaymentAlreadyRecorded"
         /\ persistent'[inv'.invoice_id] = persistent[inv'.invoice_id]
         /\ instance'.PaymentCount = instance.PaymentCount]_vars

\* C1 amended: a record_payment on a recorded identifier, authorized by the
\* admin, always fails and leaves the record and the counter unchanged; the
\* error is PaymentAlreadyRecorded when the other arguments pass the input
\* guards, and InvalidAsset or InvalidAmount (the failing guard's) otherwise
C1_Idempotency ==
    [][DuplicateByAdmin =>
         /\ inv'.result \in {"InvalidAsset", "InvalidAmount", "PaymentAlreadyRecorded"}
         /\ inv'.result # "PaymentAlreadyRecorded" => ~InvokedWithValidArgs
         /\ persistent'[inv'.invoice_id] = persistent[inv'.invoice_id]
         /\ instance'.PaymentCount = instance.PaymentCount]_vars

C1_Witness ==
    /\ inv.op = "record_payment"
    /\ inv.result = "PaymentAlreadyRecorded"
    /\ persistent[inv.invoice_id] # {}
    /\ instance.Admin \subseteq inv.auths

\* C2: once initialized, the stored counter and every payment_count() answer
\* equal the number of successful record_payment calls so far
C2_CounterConsistency ==
    /\ instance.Admin # {} => instance.PaymentCount = {U32(hist.succ)}
    /\ (inv.op = "payment_count" /\ instance.Admin # {}) =>
          (inv.result = "Ok" /\ inv.ret = {U32(hist.succ)})

C2_Witness ==
    /\ inv.op = "payment_count"
    /\ hist.succ = 2
    /\ inv.ret = {U32(2)}

C4_ReadAfterWrite ==
    [][(Invoked("record_payment") /\ inv'.result = "Ok") =>
         \A p \in Addresses, c \in AssetCodes, s \in AssetIssuers, n \in Amounts :
            record_payment(inv'.auths, inv'.invoice_id, p, c, s, n) =>
               LET read == storage_get_payment(persistent', inv'.invoice_id, ledger')
               IN /\ read.ok
                  /\ read.val =
                       {[invoice_id |-> inv'.invoice_id,
                         payer |-> p,
                         asset |-> IF c = "XLM" THEN <<"Native">>
                                   ELSE <<"Token", c, s>>,
                         amount |-> n,
                         timestamp |-> ledger]}
                  /\ storage_has_payment(persistent', inv'.invoice_id)]_vars

C4_Witness ==
    /\ inv.op = "record_payment"
    /\ inv.result = "Ok"
    /\ LET r == Unwrap(persistent[inv.invoice_id]).val
       IN /\ r.asset = <<"Token", "USDC", "GISSUER">>
          /\ r.timestamp = ledger
          /\ ledger > 0

\* C5: on an initialized instance a record_payment the current admin has not
\* authorized fails and writes nothing, whoever else authorized it
C5_AuthGate ==
    [][(Invoked("record_payment") /\ instance.Admin # {}
            /\ ~(instance.Admin \subseteq inv'.auths)) =>
         /\ inv'.result = "AuthFailed"
         /\ UNCHANGED <<instance, persistent, events>>]_vars

C5_Witness ==
    /\ inv.op = "record_payment"
    /\ inv.result = "AuthFailed"
    /\ inv.auths # {}
    /\ inv.invoice_id # ""
    /\ persistent[inv.invoice_id] = {}

\* C6: set_admin(new_admin) succeeds only with the authorization of both the
\* current admin and new_admin; with one of them missing it fails and the
\* admin slot keeps its value
C6_TwoPartyTransfer ==
    [][(Invoked("set_admin") /\ instance.Admin # {}) =>
         LET both == (instance.Admin \subseteq inv'.auths)
                        /\ (inv'.addr \subseteq inv'.auths)
         IN /\ inv'.result = "Ok" => both
            /\ ~both => (inv'.result = "AuthFailed"
                            /\ instance'.Admin = instance.Admin)]_vars

C6_Witness ==
    /\ inv.op = "set_admin"
    /\ inv.result = "AuthFailed"
    /\ inv.auths = instance.Admin
    /\ inv.addr # instance.Admin

\* C7: a successful set_admin stores new_admin; after a hand-over from A to B
\* (A # B) admin() returns B, a record_payment carrying only A's
\* authorization fails, and a record_payment authorized by B with valid
\* arguments for an unrecorded identifier succeeds
C7_HandOver ==
    [][/\ (Invoked("set_admin") /\ inv'.result = "Ok") =>
             /\ instance'.Admin = inv'.addr
             /\ hist'.prev = IF inv'.addr = instance.Admin THEN hist.prev
                             ELSE instance.Admin
       /\ hist.prev # {} =>
             /\ instance.Admin # {}
             /\ instance.Admin # hist.prev
             /\ Invoked("admin") =>
                   (inv'.result = "Ok" /\ inv'.ret = instance.Admin)
             /\ (Invoked("record_payment") /\ inv'.auths = hist.prev) =>
                   inv'.result = "AuthFailed"
             /\ (Invoked("record_payment")
                    /\ instance.Admin \subseteq inv'.auths
                    /\ inv'.invoice_id # ""
                    /\ persistent[inv'.invoice_id] = {}
                    /\ inv'.result # "Ok") => ~InvokedWithValidArgs]_vars

C7_Witness ==
    /\ inv.op = "record_payment"
    /\ inv.result = "AuthFailed"
    /\ hist.prev # {}
    /\ inv.auths = hist.prev

\* C8: initialize(a) on an instance without admin succeeds and leaves
\* admin() = a and payment_count() = 0; on an instance with an admin it fails
\* with AlreadyInitialized and changes neither admin, counter nor records
C8_InitializeOnce ==
    [][Invoked("initialize") =>
         IF instance.Admin = {}
         THEN /\ inv'.result = "Ok"
              /\ storage_get_admin(instance').ok
              /\ storage_get_admin(instance').val = inv'.addr
              /\ storage_get_count(instance') = [hi |-> 0, lo |-> 0]
         ELSE /\ inv'.result = "AlreadyInitialized"
              /\ UNCHANGED <<instance, persistent>>]_vars

C8_Witness ==
    /\ inv.op = "initialize"
    /\ inv.result = "AlreadyInitialized"
    /\ hist.succ > 0
    /\ hist.prev # {}

\* C9: an instance that has an admin keeps having one; on it admin() succeeds
\* and initialize fails
C9_OneWay ==
    [][instance.Admin # {} =>
         /\ instance'.Admin # {}
         /\ Invoked("admin") => inv'.result = "Ok"
         /\ Invoked("initialize") => inv'.result # "Ok"]_vars

C9_Witness ==
    /\ inv.op = "admin"
    /\ inv.result = "Ok"
    /\ hist.prev # {}
    /\ hist.succ > 0

\* C10: on an instance without admin, record_payment, admin and set_admin fail
\* with NotInitialized for every argument and authorization and write nothing
C10_NotInitialized ==
    [][(instance.Admin = {}
          /\ (Invoked("record_payment") \/ Invoked("admin") \/ Invoked("set_admin"))) =>
         /\ inv'.result = "NotInitialized"
         /\ UNCHANGED <<instance, persistent, events>>]_vars

C10_Witness ==
    /\ inv.op = "set_admin"
    /\ inv.result = "NotInitialized"
    /\ inv.auths = Addresses

\* the operations other than initialize
OtherOps ==
    {"record_payment", "get_payment", "has_payment", "payment_count",
     "admin", "set_admin"}

\* C11 as stated: on an instance without admin no operation other than
\* initialize completes successfully
C11_AsStated ==
    [][(instance.Admin = {} /\ inv.op = "none" /\ inv'.op \in OtherOps) =>
         inv'.result # "Ok"]_vars

\* C11 amended: on an instance without admin, record_payment, admin and
\* set_admin fail with NotInitialized and get_payment fails with
\* PaymentNotFound, while has_payment and payment_count complete
\* successfully, returning false and 0
C11_RequiresInitialized ==
    [][instance.Admin = {} =>
         /\ (Invoked("record_payment") \/ Invoked("admin") \/ Invoked("set_admin"))
               => inv'.result = "NotInitialized"
         /\ Invoked("get_payment") => inv'.result = "PaymentNotFound"
         /\ Invoked("has_payment") => (inv'.result = "Ok" /\ inv'.ret = {FALSE})
         /\ Invoked("payment_count") =>
               (inv'.result = "Ok" /\ inv'.ret = {[hi |-> 0, lo |-> 0]})]_vars

C11_Witness ==
    /\ instance.Admin = {}
    /\ inv.op = "has_payment"
    /\ inv.result = "Ok"
    /\ inv.invoice_id # ""

\* the typed errors of the contract
ContractErrors ==
    {"NotInitialized", "AlreadyInitialized", "InvalidInvoiceId", "InvalidAsset",
     "InvalidAmount", "PaymentAlreadyRecorded", "PaymentNotFound"}

\* C12: an invocation that returns a typed error leaves admin, counter,
\* records, leases and event log as they were
C12_ErrorsMutateNothing ==
    [][(inv.op = "none" /\ inv'.op # "none" /\ inv'.result \in ContractErrors) =>
         UNCHANGED <<instance, persistent, events>>]_vars

C12_Witness ==
    /\ inv.op = "initialize"
    /\ inv.result = "AlreadyInitialized"
    /\ hist.succ = 2
    /\ Len(events) = 2

\* the step is a record_payment authorized by the admin on an identifier
\* that is non-empty and has no record
FreshByAdmin ==
    /\ Invoked("record_payment")
    /\ instance.Admin # {}
    /\ instance.Admin \subseteq inv'.auths
    /\ inv'.invoice_id # ""
    /\ persistent[inv'.invoice_id] = {}

\* C14: with the other fields valid, (code, issuer) is accepted as Native
\* when code is "XLM" and issuer empty, accepted as Token(code, issuer) when
\* code is non-empty, not "XLM" and issuer non-empty, and rejected with
\* InvalidAsset in every other case
C14_AssetClassification ==
    [][FreshByAdmin =>
         \A p \in Addresses, c \in AssetCodes, s \in AssetIssuers, n \in Amounts :
            (n > 0 /\ record_payment(inv'.auths, inv'.invoice_id, p, c, s, n)) =>
               LET stored == persistent'[inv'.invoice_id]
               IN IF c = "XLM" /\ s = ""
                  THEN /\ inv'.result = "Ok"
                       /\ stored # {}
                       /\ Unwrap(stored).val.asset = <<"Native">>
                  ELSE IF c # "" /\ c # "XLM" /\ s # ""
                  THEN /\ inv'.result = "Ok"
                       /\ stored # {}
                       /\ Unwrap(stored).val.asset = <<"Token", c, s>>
                  ELSE /\ inv'.result = "InvalidAsset"
                       /\ stored = {}]_vars

C14_Witness ==
    /\ inv.op = "record_payment"
    /\ inv.result = "InvalidAsset"
    /\ instance.Admin \subseteq inv.auths
    /\ inv.invoice_id # ""
    /\ persistent[inv.invoice_id] = {}

\* the outcome the ordered guards of record_payment give in the current state
FirstFailingGuard(auths, id, code, issuer, amount) ==
    IF instance.Admin = {} THEN "NotInitialized"
    ELSE IF ~(instance.Admin \subseteq auths) THEN "AuthFailed"
    ELSE IF id = "" THEN "InvalidInvoiceId"
    ELSE IF code = "" THEN "InvalidAsset"
    ELSE IF (code = "XLM") # (issuer = "") THEN "InvalidAsset"
    ELSE IF amount < 1 THEN "InvalidAmount"
    ELSE IF persistent[id] # {} THEN "PaymentAlreadyRecorded"
    ELSE "Ok"

\* C20: the outcome of record_payment is that of the first failing guard in
\* the order NotInitialized, admin authorization, InvalidInvoiceId,
\* InvalidAsset, InvalidAmount, PaymentAlreadyRecorded, and success when no
\* guard fails
C20_GuardPrecedence ==
    [][Invoked("record_payment") =>
         \A c \in AssetCodes, s \in AssetIssuers, n \in Amounts :
            FirstFailingGuard(inv'.auths, inv'.invoice_id, c, s, n) # inv'.result =>
               \A p \in GuardPayers :
                  ~record_payment(inv'.auths, inv'.invoice_id, p, c, s, n)]_vars

C20_Witness ==
    /\ inv.op = "record_payment"
    /\ inv.result = "InvalidAmount"
    /\ persistent[inv.invoice_id] # {}
    /\ instance.Admin \subseteq inv.auths

\* number of invoice identifiers that have a stored record
StoredRecords == Cardinality({i \in InvoiceIds : persistent[i] # {}})

ExtendedAfter(log, k) ==
    \E l \in (k + 1)..Len(log) :
        /\ log[l].call = "extend_ttl"
        /\ log[l].scope = log[k].scope
        /\ log[k].scope = "persistent" => log[l].key = log[k].key
        /\ log[l].threshold = 17280
        /\ log[l].extend_to = 518400

\* the same, for an extension made earlier in the invocation
ExtendedBefore(log, k) ==
    \E l \in 1..(k - 1) :
        /\ log[l].call = "extend_ttl"
        /\ log[l].scope = log[k].scope
        /\ log[k].scope = "persistent" => log[l].key = log[k].key
        /\ log[l].threshold = 17280
        /\ log[l].extend_to = 518400

\* C17 as stated: every write of instance state and every successful write
\* or read of a persistent record is followed, within the invocation, by a
\* lease extension of its scope or key with min 17280 and target 518400
C17_AsStated ==
    \A k \in 1..Len(inv.log) :
        inv.log[k].call \in {"set", "get"} => ExtendedAfter(inv.log, k)

\* C17 amended: the same, except for the counter write of initialize, which
\* no extension follows: the instance-scope extension of that invocation is
\* the one made by the admin write before it
C17_LeasePolicy ==
    /\ \A k \in 1..Len(inv.log) :
          inv.log[k].call \in {"set", "get"} =>
             IF inv.op = "initialize" /\ inv.log[k].key = "PaymentCount"
             THEN ExtendedBefore(inv.log, k) /\ ~ExtendedAfter(inv.log, k)
             ELSE ExtendedAfter(inv.log, k)
    /\ (inv.op = "initialize" /\ inv.result = "Ok") =>
          {inv.log[k].key : k \in {j \in 1..Len(inv.log) : inv.log[j].call = "set"}}
             = {"Admin", "PaymentCount"}
    /\ (inv.op = "set_admin" /\ inv.result = "Ok") =>
          \E k \in 1..Len(inv.log) :
             inv.log[k].call = "set" /\ inv.log[k].key = "Admin"
    /\ (inv.op = "record_payment" /\ inv.result = "Ok") =>
          /\ \E k \in 1..Len(inv.log) :
                /\ inv.log[k].call = "set"
                /\ inv.log[k].scope = "persistent"
                /\ inv.log[k].key = inv.invoice_id
          /\ \E k \in 1..Len(inv.log) :
                inv.log[k].call = "set" /\ inv.log[k].key = "PaymentCount"
    /\ (inv.op = "get_payment" /\ inv.result = "Ok") =>
          \E k \in 1..Len(inv.log) :
             /\ inv.log[k].call = "get"
             /\ inv.log[k].scope = "persistent"
             /\ inv.log[k].key = inv.invoice_id

C17_Witness ==
    /\ inv.op = "record_payment"
    /\ inv.result = "Ok"
    /\ Len(inv.log) = 4
    /\ hist.succ = 2

\* C16: get_payment(i) with no record stored for i fails with
\* PaymentNotFound and changes no lease; with a record stored it returns that
\* record and changes nothing but the lease of key i, which is extended or
\* left as it is; has_payment(i) answers Ok with true exactly when a record
\* for i is stored and changes no lease
C16_ReadAccessors ==
    [][/\ Invoked("get_payment") =>
             LET i == inv'.invoice_id
             IN IF persistent[i] = {}
                THEN /\ inv'.result = "PaymentNotFound"
                     /\ persistent' = persistent
                     /\ instance' = instance
                ELSE /\ inv'.result = "Ok"
                     /\ inv'.ret = {Unwrap(persistent[i]).val}
                     /\ persistent'[i] # {}
                     /\ Unwrap(persistent'[i]).val = Unwrap(persistent[i]).val
                     /\ Unwrap(persistent'[i]).live_until \in
                           {Unwrap(persistent[i]).live_until, ledger + 518400}
                     /\ Unwrap(persistent'[i]).live_until >=
                           Unwrap(persistent[i]).live_until
                     /\ \A j \in InvoiceIds \ {i} : persistent'[j] = persistent[j]
                     /\ instance' = instance
       /\ Invoked("has_payment") =>
             /\ inv'.result = "Ok"
             /\ inv'.ret = {persistent[inv'.invoice_id] # {}}
             /\ persistent' = persistent
             /\ instance' = instance]_vars

\* a read has extended the lease of inv-1 while the lease of inv-2, as short
\* as that of inv-1 was, stays as it is
C16_Witness ==
    /\ inv.op = "get_payment"
    /\ inv.result = "Ok"
    /\ inv.invoice_id = "inv-1"
    /\ persistent["inv-1"] # {}
    /\ persistent["inv-2"] # {}
    /\ Unwrap(persistent["inv-1"]).live_until = ledger + BUMP_TTL
    /\ Unwrap(persistent["inv-1"]).val.timestamp < ledger
    /\ Unwrap(persistent["inv-2"]).live_until - ledger < MIN_TTL

\* the step is a successful read (get_payment) or write (record_payment) of
\* the record of i
Accessed(i) ==
    /\ Invoked("get_payment") \/ Invoked("record_payment")
    /\ inv'.invoice_id = i
    /\ inv'.result = "Ok"

\* C18: a successful get_payment(i) sets the remaining lifetime of the
\* record to 518400 when it is below 17280 and leaves it otherwise; after
\* every successful write or read of i the remaining lifetime is at least
\* 17280; no other step changes the lease of a stored record; the host evicts
\* a record only after its lease has run out (so a record read again within
\* 17280 of each access is never evicted); and a stored record eventually
\* runs out of lease unless a get_payment on it succeeds
C18_HotRecords ==
    /\ [][\A i \in InvoiceIds :
             /\ (Invoked("get_payment") /\ Accessed(i)) =>
                   LET remaining == Unwrap(persistent[i]).live_until - ledger
                   IN Unwrap(persistent'[i]).live_until - ledger =
                         IF remaining < 17280 THEN 518400 ELSE remaining
             /\ Accessed(i) =>
                   /\ persistent'[i] # {}
                   /\ Unwrap(persistent'[i]).live_until - ledger >= 17280
             /\ (persistent[i] # {} /\ ~Accessed(i)) =>
                   \/ persistent'[i] = persistent[i]
                   \/ /\ persistent'[i] = {}
                      /\ ledger > Unwrap(persistent[i]).live_until
                      /\ ledger' = ledger]_vars
    /\ \A i \in InvoiceIds :
          (persistent[i] # {}) ~>
             \/ /\ persistent[i] # {}
                /\ Expired(Unwrap(persistent[i]).live_until, ledger)
             \/ /\ inv.op = "get_payment"
                /\ inv.invoice_id = i
                /\ inv.result = "Ok"

\* inv-1, written at ledger 0 and read since, is alive after the lease of
\* its write has run out; inv-2, recorded and never read, has been evicted
C18_Witness ==
    /\ persistent["inv-1"] # {}
    /\ Unwrap(persistent["inv-1"]).val.timestamp = 0
    /\ ledger > BUMP_TTL
    /\ ~Expired(Unwrap(persistent["inv-1"]).live_until, ledger)
    /\ persistent["inv-2"] = {}
    /\ \E k \in 1..Len(events) : events[k].data.invoice_id = "inv-2"

\* a record for i was stored (its event is in the log) and the host has
\* evicted it
Evicted(i) ==
    /\ persistent[i] = {}
    /\ \E k \in 1..Len(events) : events[k].data.invoice_id = i

\* C19: on an identifier whose record was evicted, has_payment returns
\* false, get_payment fails with PaymentNotFound, and a record_payment with
\* valid arguments authorized by the admin succeeds, stores the record,
\* increments the counter and emits the event
C19_EvictionAsNeverRecorded ==
    [][\A i \in InvoiceIds :
          (Evicted(i) /\ inv'.invoice_id = i) =>
             /\ Invoked("has_payment") =>
                   inv'.result = "Ok" /\ inv'.ret = {FALSE}
             /\ Invoked("get_payment") =>
                   /\ inv'.result = "PaymentNotFound"
                   /\ persistent' = persistent
             /\ (/\ Invoked("record_payment")
                 /\ instance.Admin # {}
                 /\ instance.Admin \subseteq inv'.auths) =>
                   \A p \in Addresses, c \in AssetCodes, s \in AssetIssuers,
                      n \in Amounts :
                      (/\ PassesInputGuards(c, s, n)
                       /\ record_payment(inv'.auths, i, p, c, s, n)) =>
                         LET record == PaymentRecord(i, p, build_asset(c, s), n, ledger)
                             count == storage_get_count(instance)
                         IN /\ inv'.result = "Ok"
                            /\ persistent'[i] # {}
                            /\ Unwrap(persistent'[i]).val = record
                            /\ storage_get_count(instance') =
                                  [count EXCEPT !.lo = @ + 1]
                            /\ events' = Append(events,
                                  [topics |-> <<"payment", "recorded">>,
                                   data |-> record])]_vars

\* the record of an evicted identifier has been recorded again
C19_Witness ==
    /\ inv.op = "record_payment"
    /\ inv.result = "Ok"
    /\ Len(events) >= 2
    /\ events[Len(events)].data.invoice_id = inv.invoice_id
    /\ \E k \in 1..(Len(events) - 1) : events[k].data.invoice_id = inv.invoice_id
    /\ Unwrap(persistent[inv.invoice_id]).val.timestamp = ledger
    /\ ledger > BUMP_TTL

\* C21: every stored payment record sits under the key of its own
\* invoice_id, which is non-empty, has amount > 0, and has an asset that is
\* Native or Token(code, issuer) with code non-empty and not "XLM" and
\* issuer non-empty
C21_WellFormedStore ==
    \A k \in InvoiceIds :
        persistent[k] # {} =>
           LET r == Unwrap(persistent[k]).val
           IN /\ r.invoice_id = k
              /\ k # ""
              /\ r.amount > 0
              /\ \/ r.asset = <<"Native">>
                 \/ /\ Len(r.asset) = 3
                    /\ r.asset[1] = "Token"
                    /\ r.asset[2] # ""
                    /\ r.asset[2] # "XLM"
                    /\ r.asset[3] # ""

\* a native and a token payment are stored
C21_Witness ==
    /\ persistent["inv-1"] # {}
    /\ persistent["inv-2"] # {}
    /\ Unwrap(persistent["inv-1"]).val.asset = <<"Native">>
    /\ Unwrap(persistent["inv-2"]).val.asset = <<"Token", "USDC", "GISSUER">>
    /\ Unwrap(persistent["inv-2"]).val.amount = 2

\* a <= b as unsigned 32-bit values
U32Leq(a, b) == a.hi < b.hi \/ (a.hi = b.hi /\ a.lo <= b.lo)

\* b = a + 1 as numbers (not modulo 2^32)
U32Succ(a, b) ==
    \/ a.lo + 1 < 65536 /\ b = [hi |-> a.hi, lo |-> a.lo + 1]
    \/ a.lo + 1 = 65536 /\ a.hi + 1 < 65536 /\ b = [hi |-> a.hi + 1, lo |-> 0]

\* C22: the payment counter never decreases, and each successful
\* record_payment raises it by exactly one, also when it holds 2^32 - 1
C22_CounterNeverDecreases ==
    [][/\ U32Leq(storage_get_count(instance), storage_get_count(instance'))
       /\ (Invoked("record_payment") /\ inv'.result = "Ok") =>
             U32Succ(storage_get_count(instance), storage_get_count(instance'))]_vars

\* C23: while the instance has never been initialized, the response of
\* payment_count is Ok with 0, the response of has_payment(i) is Ok with
\* false and the response of get_payment(i) is PaymentNotFound, for every i;
\* none of the three is NotInitialized
C23_ReadersBeforeInitialize ==
    instance.Admin = {} =>
       /\ inv.op = "payment_count" =>
             inv.result = "Ok" /\ inv.ret = {[hi |-> 0, lo |-> 0]}
       /\ inv.op = "has_payment" => inv.result = "Ok" /\ inv.ret = {FALSE}
       /\ inv.op = "get_payment" => inv.result = "PaymentNotFound"
       /\ inv.op \in {"payment_count", "has_payment", "get_payment"} =>
             inv.result # "NotInitialized"

C23_Witness ==
    /\ instance.Admin = {}
    /\ instance.PaymentCount = {}
    /\ inv.op = "payment_count"
    /\ inv.result = "Ok"
    /\ ledger = 1

\* the stored record of k, without its lease: {} or {record}
StoredValue(pers, k) == {e.val : e \in pers[k]}

\* C24: the admin slot changes only by a successful initialize or
\* set_admin; the counter changes only by a successful initialize, to 0, or
\* by a successful record_payment, by plus one; the stored records change
\* only by a successful record_payment, which adds the entry of its
\* invoice_id and touches no other; set_admin changes neither counter nor
\* records; get_payment, has_payment, payment_count and admin change no
\* stored value
C24_Frame ==
    [][/\ instance'.Admin # instance.Admin =>
             /\ Invoked("initialize") \/ Invoked("set_admin")
             /\ inv'.result = "Ok"
       /\ instance'.PaymentCount # instance.PaymentCount =>
             /\ inv'.result = "Ok"
             /\ \/ /\ Invoked("initialize")
                   /\ instance'.PaymentCount = {[hi |-> 0, lo |-> 0]}
                \/ /\ Invoked("record_payment")
                   /\ U32Succ(storage_get_count(instance),
                              storage_get_count(instance'))
       /\ (\E k \in InvoiceIds :
              StoredValue(persistent', k) # StoredValue(persistent, k)) =>
             /\ Invoked("record_payment")
             /\ inv'.result = "Ok"
       /\ (Invoked("record_payment") /\ inv'.result = "Ok") =>
             /\ persistent[inv'.invoice_id] = {}
             /\ persistent'[inv'.invoice_id] # {}
             /\ Unwrap(persistent'[inv'.invoice_id]).val.invoice_id = inv'.invoice_id
             /\ \A j \in InvoiceIds \ {inv'.invoice_id} :
                   persistent'[j] = persistent[j]
       /\ Invoked("set_admin") =>
             /\ instance'.PaymentCount = instance.PaymentCount
             /\ persistent' = persistent
       /\ (\/ Invoked("get_payment") \/ Invoked("has_payment")
           \/ Invoked("payment_count") \/ Invoked("admin")) =>
             /\ instance'.Admin = instance.Admin
             /\ instance'.PaymentCount = instance.PaymentCount
             /\ \A k \in InvoiceIds :
                   StoredValue(persistent', k) = StoredValue(persistent, k)]_vars

\* C25: on an instance without admin, initialize(a) succeeds and stores a
\* as admin whatever set of authorizations the call carries, the empty set
\* and sets without a included: the response and the stored state do not
\* depend on the authorizations
C25_InitializeUnauthenticated ==
    [][(Invoked("initialize") /\ instance.Admin = {}) =>
          /\ inv'.result = "Ok"
          /\ instance'.Admin = inv'.addr
          /\ inv'.addr # {}
          /\ instance'.PaymentCount = {[hi |-> 0, lo |-> 0]}
          /\ \A auths \in AuthSets :
                LET a == Unwrap(inv'.addr)
                IN [inv' EXCEPT !.auths = auths] =
                      [Call("initialize", auths) EXCEPT
                          !.addr = {a}, !.result = "Ok", !.log = initialize_log]]_vars

\* initialize has made GB the admin on a call that nobody authorized
C25_Witness ==
    /\ inv.op = "initialize"
    /\ inv.result = "Ok"
    /\ inv.auths = {}
    /\ inv.addr = {"GB"}
    /\ instance.Admin = {"GB"}

====
